---- MODULE Spec2Model ----
(***************************************************************************)
(* yrs-kvstore: persistence of Yrs documents over an ordered key-value     *)
(* store.  The store is a finite map from byte-string keys to byte-string  *)
(* values, ordered byte-lexicographically.  Every public operation of the  *)
(* DocOps trait is one action, executed serially.                          *)
(***************************************************************************)
EXTENDS Integers, Naturals, Sequences, FiniteSets, TLC

VARIABLES
    store,      \* the key-value store: [key -> value], keys and values are byte strings
    ret,        \* the outcome of the last public operation
    allocated,  \* history: the owner ids get_or_create_oid has allocated so far
    pushed,     \* history: per name, the updates pushed since its last flush/clear
    lastClock,  \* history: per name, the clock of its last push since any flush/clear
    ops,        \* the number of public operations executed so far
    task        \* the public operation that is executing call by call, if any

vars == <<store, ret, allocated, pushed, lastClock, ops, task>>

----------------------------------------------------------------------------
(* Bounds of the model *)

MaxOid == 3         \* no owner id above this is allocated
MaxLog == 2         \* no more than this many entries in one log region / pushes per name
MaxOps == 4         \* no more than this many public operations in one run

(* Inputs *)

NameA  == <<97>>                    \* "a"
NameAB == <<97, 98>>                \* "ab"
NameZ  == <<255, 255, 255, 254>>    \* a four-byte name, greatest in byte order
Names  == {NameA, NameAB, NameZ}

MetaKeys == {<<109>>}
MetaVals == {<<7>>}

Edits == {1, 2}                     \* the edits a document may contain

----------------------------------------------------------------------------
(* Bytes and fixed-width big-endian integers *)

U32Max == <<255, 255, 255, 255>>
U32Zero == <<0, 0, 0, 0>>

\* n.to_be_bytes() for a u32 n
to_be_bytes(n) ==
    << (n \div 16777216) % 256, (n \div 65536) % 256, (n \div 256) % 256, n % 256 >>

\* b + 1 on the four big-endian bytes b, wrapping at 2^32
WrapInc(b) ==
    IF b[4] < 255 THEN <<b[1], b[2], b[3], b[4] + 1>>
    ELSE IF b[3] < 255 THEN <<b[1], b[2], b[3] + 1, 0>>
    ELSE IF b[2] < 255 THEN <<b[1], b[2] + 1, 0, 0>>
    ELSE IF b[1] < 255 THEN <<b[1] + 1, 0, 0, 0>>
    ELSE U32Zero

\* byte-lexicographic order on byte strings (the backend's key order; on
\* four-byte big-endian values it is the numeric order)
Less(a, b) ==
    \E i \in 1..(Len(b)) :
        /\ \A j \in 1..(i - 1) : j <= Len(a) /\ a[j] = b[j]
        /\ \/ i = Len(a) + 1
           \/ i <= Len(a) /\ a[i] < b[i]

Leq(a, b) == a = b \/ Less(a, b)

RECURSIVE SortKeys(_)
\* the keys of S as an ascending sequence
SortKeys(S) ==
    IF S = {} THEN <<>>
    ELSE LET m == CHOOSE x \in S : \A y \in S : Leq(x, y)
         IN  <<m>> \o SortKeys(S \ {m})

Range(f) == {f[i] : i \in DOMAIN f}

----------------------------------------------------------------------------
(* Key-space codec (crate::keys) *)

V1 == 0
KEYSPACE_OID == 0
KEYSPACE_DOC == 1
SUB_DOC == 0
SUB_STATE_VEC == 1
SUB_UPDATE == 2
SUB_META == 3
TERMINATOR == 0
TERMINATOR_HI_WATERMARK == 255

\* 00{doc_name:n}0
key_oid(name) == <<V1, KEYSPACE_OID>> \o name \o <<TERMINATOR>>

\* the document name embedded in an id-allocation key
doc_oid_name(key) == SubSeq(key, 3, Len(key) - 1)

\* 01{oid:4}0
key_doc(oid) == <<V1, KEYSPACE_DOC>> \o oid \o <<SUB_DOC>>

\* 01{oid:4}1
key_state_vector(oid) == <<V1, KEYSPACE_DOC>> \o oid \o <<SUB_STATE_VEC>>

\* 01{oid:4}2{clock:4}0
key_update(oid, clock) ==
    <<V1, KEYSPACE_DOC>> \o oid \o <<SUB_UPDATE>> \o clock \o <<TERMINATOR>>

\* 01{oid:4}3{meta_key:n}0
key_meta(oid, meta_key) ==
    <<V1, KEYSPACE_DOC>> \o oid \o <<SUB_META>> \o meta_key \o <<TERMINATOR>>

key_meta_start(oid) == <<V1, KEYSPACE_DOC>> \o oid \o <<SUB_META>>

key_meta_end(oid) ==
    <<V1, KEYSPACE_DOC>> \o oid \o <<SUB_META, TERMINATOR_HI_WATERMARK>>

\* all keys of a document lie within [0,1,..oid,0]..[0,1,..oid,255]
key_doc_start(oid) == <<V1, KEYSPACE_DOC>> \o oid \o <<TERMINATOR>>

key_doc_end(oid) == <<V1, KEYSPACE_DOC>> \o oid \o <<TERMINATOR_HI_WATERMARK>>

----------------------------------------------------------------------------
(* The KVStore primitives.  An optional result is <<>> (None) or <<x>>     *)
(* (Some(x)); an entry is identified by its key.                           *)

EmptyStore == [k \in {} |-> <<>>]

get(s, key) == IF key \in DOMAIN s THEN <<s[key]>> ELSE <<>>

upsert(s, key, value) ==
    [k \in (DOMAIN s) \cup {key} |-> IF k = key THEN value ELSE s[k]]

remove(s, key) == [k \in (DOMAIN s) \ {key} |-> s[k]]

remove_range(s, from, to) ==
    [k \in {x \in DOMAIN s : ~(Leq(from, x) /\ Leq(x, to))} |-> s[k]]

\* the keys of the entries within from..=to, ascending
iter_range(s, from, to) ==
    SortKeys({k \in DOMAIN s : Leq(from, k) /\ Leq(k, to)})

\* the entry with the greatest key not above the probe
peek_back(s, key) ==
    LET below == {k \in DOMAIN s : Leq(k, key)}
    IN  IF below = {} THEN <<>>
        ELSE <<CHOOSE m \in below : \A k \in below : Leq(k, m)>>

----------------------------------------------------------------------------
(* The document engine (yrs).  A document is the sequence of the edits it  *)
(* has integrated; an update is a sequence of edits; applying an update    *)
(* integrates, in order, the edits the document does not hold yet.         *)

NewDoc == <<>>

InDoc(doc, e) == \E i \in 1..Len(doc) : doc[i] = e

RECURSIVE apply_update(_, _)
apply_update(doc, update) ==
    IF update = <<>> THEN doc
    ELSE apply_update(IF InDoc(doc, Head(update)) THEN doc
                      ELSE Append(doc, Head(update)),
                      Tail(update))

\* lib0 v1 encoding of an update: the number of edits, then the edits
encode_update_v1(update) == <<Len(update)>> \o update

decode_update_v1(bytes) == Tail(bytes)

\* the state of the document as an update against the empty state vector
encode_state_as_update_v1(doc) == encode_update_v1(doc)

RECURSIVE SortedEdits(_)
SortedEdits(S) ==
    IF S = {} THEN <<>>
    ELSE LET m == CHOOSE x \in S : \A y \in S : x <= y
         IN  <<m>> \o SortedEdits(S \ {m})

\* the state vector of a document: which edits it holds
state_vector(doc) == Range(doc)

encode_sv_v1(sv) == <<Cardinality(sv)>> \o SortedEdits(sv)

decode_sv_v1(bytes) == Range(Tail(bytes))

RECURSIVE ApplyAll(_, _)
\* apply the decoded updates of a sequence of encoded updates, in order
ApplyAll(doc, encoded) ==
    IF encoded = <<>> THEN doc
    ELSE ApplyAll(apply_update(doc, decode_update_v1(Head(encoded))), Tail(encoded))

----------------------------------------------------------------------------
(* The Owner-ID allocator *)

\* get_oid that never finds the mapping
get_oid_absent(s, name) == <<>>

\* Some(oid) when the name has an id mapping, None otherwise
get_oid(s, name) ==
    LET value == get(s, key_oid(name))
    IN  IF value # <<>> THEN <<value[1]>> ELSE <<>>

\* the id of the name, allocated as (id found by peek_back below the first
\* document key) + 1 when the name has none
get_or_create_oid(s, name) ==
    IF get_oid(s, name) # <<>>
    THEN [s |-> s, oid |-> get_oid(s, name)[1], created |-> FALSE]
    ELSE LET e == peek_back(s, <<V1, KEYSPACE_DOC>>)
             last_oid == IF e # <<>> THEN s[e[1]] ELSE U32Zero
             new_oid == WrapInc(last_oid)
         IN  [s |-> upsert(s, key_oid(name), new_oid),
              oid |-> new_oid, created |-> TRUE]

----------------------------------------------------------------------------
(* Snapshot, log and compaction *)

\* the encoded updates of the log region of oid, ascending by key
LogValues(s, oid) ==
    LET keys == iter_range(s, key_update(oid, U32Zero), key_update(oid, U32Max))
    IN  [i \in 1..Len(keys) |-> s[keys[i]]]

\* replay the snapshot, then every log entry, into doc.  The u32 the code
\* returns is update_count with bit 31 set when the snapshot was used; it is
\* kept here as the two fields found and update_count.
load_doc(s, oid, doc) ==
    LET doc_state == get(s, key_doc(oid))
        found == doc_state # <<>>
        snap == IF found THEN <<doc_state[1]>> ELSE <<>>
        updates == LogValues(s, oid)
    IN  [doc |-> ApplyAll(doc, snap \o updates),
         applied |-> snap \o updates,
         found |-> found,
         update_count |-> Len(updates)]

\* insert_inner_v1 that forgets to store the state vector
insert_inner_v1_no_sv(s, oid, doc_state_v1, doc_sv_v1) ==
    upsert(s, key_doc(oid), doc_state_v1)

insert_inner_v1(s, oid, doc_state_v1, doc_sv_v1) ==
    upsert(upsert(s, key_doc(oid), doc_state_v1), key_state_vector(oid), doc_sv_v1)

\* delete_updates whose range ends at the first possible clock
delete_updates_short(s, oid) ==
    remove_range(s, key_update(oid, U32Zero), key_update(oid, U32Zero))

delete_updates(s, oid) ==
    remove_range(s, key_update(oid, U32Zero), key_update(oid, U32Max))

\* the test on the loaded count without masking out bit 31
FromUpdates_unmasked(loaded) == loaded.found \/ loaded.update_count # 0

\* found & !(1 << 31) != 0
FromUpdates(loaded) == loaded.update_count # 0

\* flush_doc that hands back the scratch document when nothing was loaded
flush_doc_fabricate(s, oid) ==
    LET loaded == load_doc(s, oid, NewDoc)
    IN  IF FromUpdates(loaded)
        THEN [s |-> delete_updates(
                        insert_inner_v1(s, oid,
                            encode_state_as_update_v1(loaded.doc),
                            encode_sv_v1(state_vector(loaded.doc))),
                        oid),
              doc |-> <<loaded.doc>>]
        ELSE IF loaded.found THEN [s |-> s, doc |-> <<>>]
        ELSE [s |-> s, doc |-> <<loaded.doc>>]

flush_doc(s, oid) ==
    LET loaded == load_doc(s, oid, NewDoc)
    IN  IF FromUpdates(loaded)
        THEN [s |-> delete_updates(
                        insert_inner_v1(s, oid,
                            encode_state_as_update_v1(loaded.doc),
                            encode_sv_v1(state_vector(loaded.doc))),
                        oid),
              doc |-> <<loaded.doc>>]
        ELSE [s |-> s, doc |-> <<>>]

----------------------------------------------------------------------------
(* DocOps: the public operations as functions of the store *)

insert_doc_raw_v1(s, name, doc_state_v1, doc_sv_v1) ==
    LET c == get_or_create_oid(s, name)
    IN  [s |-> insert_inner_v1(c.s, c.oid, doc_state_v1, doc_sv_v1),
         oid |-> c.oid, created |-> c.created]

insert_doc(s, name, doc) ==
    insert_doc_raw_v1(s, name, encode_state_as_update_v1(doc),
                      encode_sv_v1(state_vector(doc)))

\* the test of the loaded count that looks at the update count only
Loaded_updates_only(loaded) == loaded.update_count # 0

\* loaded != 0
Loaded(loaded) == loaded.found \/ loaded.update_count # 0

DocOps_load_doc(s, name, doc) ==
    IF get_oid(s, name) # <<>>
    THEN LET loaded == load_doc(s, get_oid(s, name)[1], doc)
         IN  [found |-> Loaded(loaded), doc |-> loaded.doc, applied |-> loaded.applied]
    ELSE [found |-> FALSE, doc |-> doc, applied |-> <<>>]

flush_doc_with(s, name) ==
    IF get_oid(s, name) # <<>>
    THEN flush_doc(s, get_oid(s, name)[1])
    ELSE [s |-> s, doc |-> <<>>]

\* get_state_vector with the emptiness test of the log cursor inverted
get_state_vector_inverted(s, name) ==
    IF get_oid(s, name) # <<>>
    THEN LET oid == get_oid(s, name)[1]
             data == get(s, key_state_vector(oid))
             sv == IF data # <<>> THEN <<decode_sv_v1(data[1])>> ELSE <<>>
             iter == iter_range(s, key_update(oid, U32Zero), key_update(oid, U32Max))
         IN  <<sv, iter # <<>> >>
    ELSE << <<>>, TRUE >>

\* <<stored vector (optional), up_to_date>>
get_state_vector(s, name) ==
    IF get_oid(s, name) # <<>>
    THEN LET oid == get_oid(s, name)[1]
             data == get(s, key_state_vector(oid))
             sv == IF data # <<>> THEN <<decode_sv_v1(data[1])>> ELSE <<>>
             iter == iter_range(s, key_update(oid, U32Zero), key_update(oid, U32Max))
         IN  <<sv, iter = <<>> >>
    ELSE << <<>>, TRUE >>

\* The outcomes of push_update: the slice last_key[(len - 5)..(len - 1)]
\* panics on a key shorter than five bytes; last_clock + 1 at u32::MAX panics
\* with overflow checks on and wraps with them off.
push_update(s, name, update) ==
    LET c == get_or_create_oid(s, name)
        e == peek_back(c.s, key_update(c.oid, U32Max))
        len == IF e # <<>> THEN Len(e[1]) ELSE 0
        last_clock == IF e # <<>> THEN SubSeq(e[1], len - 4, len - 1) ELSE U32Zero
        clock == WrapInc(last_clock)
        done == [s |-> upsert(c.s, key_update(c.oid, clock), update),
                 oid |-> c.oid, created |-> c.created,
                 panicked |-> FALSE, clock |-> clock]
        panic == [s |-> c.s, oid |-> c.oid, created |-> c.created,
                  panicked |-> TRUE, clock |-> U32Zero]
    IN  IF e # <<>> /\ len < 5 THEN {panic}
        ELSE IF last_clock = U32Max THEN {panic, done}
        ELSE {done}

\* encode_diff_v1: the edits of doc that sv does not hold
encode_diff_v1(doc, sv) ==
    encode_update_v1(SelectSeq(doc, LAMBDA e : e \notin sv))

\* get_diff that encodes the diff without looking at found
get_diff_unchecked(s, name, sv) ==
    <<encode_diff_v1(DocOps_load_doc(s, name, NewDoc).doc, sv)>>

get_diff(s, name, sv) ==
    LET l == DocOps_load_doc(s, name, NewDoc)
    IN  IF l.found THEN <<encode_diff_v1(l.doc, sv)>> ELSE <<>>

RECURSIVE RemoveEach(_, _, _)
\* the loop of clear_doc over the cursor: remove each key, stop above end
RemoveEach(s, keys, end) ==
    IF keys = <<>> THEN s
    ELSE IF Less(end, Head(keys)) THEN s
    ELSE RemoveEach(remove(s, Head(keys)), Tail(keys), end)

\* clear_doc that scans only up to the end of the log region
clear_doc_to_log_end(s, name) ==
    LET oid_key == key_oid(name)
        found == get(s, oid_key)
    IN  IF found # <<>>
        THEN LET oid == found[1]
                 s1 == remove(s, oid_key)
                 start == key_doc_start(oid)
                 end == key_update(oid, U32Max)
             IN  RemoveEach(s1, iter_range(s1, start, end), end)
        ELSE s

clear_doc(s, name) ==
    LET oid_key == key_oid(name)
        found == get(s, oid_key)
    IN  IF found # <<>>
        THEN LET oid == found[1]
                 s1 == remove(s, oid_key)
                 start == key_doc_start(oid)
                 end == key_doc_end(oid)
             IN  RemoveEach(s1, iter_range(s1, start, end), end)
        ELSE s

get_meta(s, name, meta_key) ==
    IF get_oid(s, name) # <<>>
    THEN get(s, key_meta(get_oid(s, name)[1], meta_key))
    ELSE <<>>

insert_meta(s, name, meta_key, meta) ==
    LET c == get_or_create_oid(s, name)
    IN  [s |-> upsert(c.s, key_meta(c.oid, meta_key), meta),
         oid |-> c.oid, created |-> c.created]

\* remove_meta that resolves the name with get_or_create_oid
remove_meta_creating(s, name, meta_key) ==
    LET c == get_or_create_oid(s, name)
    IN  remove(c.s, key_meta(c.oid, meta_key))

remove_meta(s, name, meta_key) ==
    IF get_oid(s, name) # <<>>
    THEN remove(s, key_meta(get_oid(s, name)[1], meta_key))
    ELSE s

\* the names iter_docs yields, in order
iter_docs(s) ==
    LET keys == iter_range(s, <<V1, KEYSPACE_OID>>, <<V1, KEYSPACE_DOC>>)
    IN  [i \in 1..Len(keys) |-> doc_oid_name(keys[i])]

\* MetadataIter::next on one entry
MetadataIter_next(s, key) == <<SubSeq(key, 8, Len(key) - 1), s[key]>>

\* the (metadata key, value) pairs iter_meta yields, in order
iter_meta(s, doc_name) ==
    IF get_oid(s, doc_name) # <<>>
    THEN LET oid == get_oid(s, doc_name)[1]
             keys == iter_range(s, key_meta_start(oid), key_meta_end(oid))
         IN  [i \in 1..Len(keys) |-> MetadataIter_next(s, keys[i])]
    ELSE <<>>

----------------------------------------------------------------------------
(* The state machine: public operations executed one at a time *)

Deltas == {encode_update_v1(<<1>>), encode_update_v1(<<2>>)}
InputDocs == {<<1>>}
RawDocs == {<<2>>}
Vectors == {{}, {1}}

NoClock == <<>>

Result(op, name, panicked, val) ==
    [op |-> op, name |-> name, panicked |-> panicked, val |-> val]

\* the allocation a write to name would make stays within the bound
AllocOk(s, name) ==
    Leq(get_or_create_oid(s, name).oid, to_be_bytes(MaxOid))

\* no operation is executing call by call
Idle == [kind |-> "idle", name |-> <<>>, oid |-> <<>>, stage |-> "none",
         start |-> EmptyStore, cursor |-> <<>>, before |-> <<>>, calls |-> <<>>]

Init ==
    /\ store = EmptyStore
    /\ ret = Result("init", <<>>, FALSE, <<>>)
    /\ allocated = {}
    /\ pushed = [n \in Names |-> <<>>]
    /\ lastClock = [n \in Names |-> NoClock]
    /\ ops = 0
    /\ task = Idle

\* every operation counts against the bound on the length of a run, and runs
\* while no other operation is under way
Step == ops < MaxOps /\ ops' = ops + 1 /\ task = Idle /\ task' = task

Allocate(c) == IF c.created THEN allocated \cup {c.oid} ELSE allocated

InsertDoc(name, doc) ==
    /\ Step
    /\ AllocOk(store, name)
    /\ LET r == insert_doc(store, name, doc)
       IN  /\ store' = r.s
           /\ ret' = Result("insert_doc", name, FALSE, <<r.oid, r.created>>)
           /\ allocated' = Allocate(r)
    /\ UNCHANGED <<pushed, lastClock>>

InsertDocRaw(name, doc) ==
    /\ Step
    /\ AllocOk(store, name)
    /\ LET r == insert_doc_raw_v1(store, name, encode_state_as_update_v1(doc),
                                  encode_sv_v1(state_vector(doc)))
       IN  /\ store' = r.s
           /\ ret' = Result("insert_doc_raw_v1", name, FALSE, <<r.oid, r.created>>)
           /\ allocated' = Allocate(r)
    /\ UNCHANGED <<pushed, lastClock>>

PushUpdate(name, update) ==
    /\ Step
    /\ AllocOk(store, name)
    /\ Len(pushed[name]) < MaxLog
    /\ LET c == get_or_create_oid(store, name)
       IN  Len(LogValues(c.s, c.oid)) < MaxLog
    /\ \E r \in push_update(store, name, update) :
           /\ store' = r.s
           /\ ret' = Result("push_update", name, r.panicked,
                            <<r.oid, r.created, r.clock>>)
           /\ allocated' = Allocate(r)
           /\ pushed' = IF r.panicked THEN pushed
                        ELSE [pushed EXCEPT ![name] = Append(@, update)]
           /\ lastClock' = IF r.panicked THEN lastClock
                           ELSE [lastClock EXCEPT ![name] = r.clock]

FlushDoc(name) ==
    /\ Step
    /\ LET r == flush_doc_with(store, name)
       IN  /\ store' = r.s
           /\ ret' = Result("flush_doc", name, FALSE, r.doc)
    /\ pushed' = [pushed EXCEPT ![name] = <<>>]
    /\ lastClock' = [n \in Names |-> NoClock]
    /\ UNCHANGED allocated

ClearDoc(name) ==
    /\ Step
    /\ store' = clear_doc(store, name)
    /\ ret' = Result("clear_doc", name, FALSE, get_oid(store, name))
    /\ pushed' = [pushed EXCEPT ![name] = <<>>]
    /\ lastClock' = [n \in Names |-> NoClock]
    /\ UNCHANGED allocated

LoadDoc(name) ==
    /\ Step
    /\ ret' = Result("load_doc", name, FALSE, DocOps_load_doc(store, name, NewDoc))
    /\ UNCHANGED <<store, allocated, pushed, lastClock>>

GetStateVector(name) ==
    /\ Step
    /\ ret' = Result("get_state_vector", name, FALSE, get_state_vector(store, name))
    /\ UNCHANGED <<store, allocated, pushed, lastClock>>

GetDiff(name, sv) ==
    /\ Step
    /\ ret' = Result("get_diff", name, FALSE, <<sv, get_diff(store, name, sv)>>)
    /\ UNCHANGED <<store, allocated, pushed, lastClock>>

GetMeta(name, meta_key) ==
    /\ Step
    /\ ret' = Result("get_meta", name, FALSE, <<meta_key, get_meta(store, name, meta_key)>>)
    /\ UNCHANGED <<store, allocated, pushed, lastClock>>

InsertMeta(name, meta_key, meta) ==
    /\ Step
    /\ AllocOk(store, name)
    /\ LET r == insert_meta(store, name, meta_key, meta)
       IN  /\ store' = r.s
           /\ ret' = Result("insert_meta", name, FALSE,
                            <<r.oid, r.created, meta_key, meta>>)
           /\ allocated' = Allocate(r)
    /\ UNCHANGED <<pushed, lastClock>>

RemoveMeta(name, meta_key) ==
    /\ Step
    /\ store' = remove_meta(store, name, meta_key)
    /\ ret' = Result("remove_meta", name, FALSE, <<meta_key>>)
    /\ UNCHANGED <<allocated, pushed, lastClock>>

IterDocs ==
    /\ Step
    /\ ret' = Result("iter_docs", <<>>, FALSE, iter_docs(store))
    /\ UNCHANGED <<store, allocated, pushed, lastClock>>

IterMeta(name) ==
    /\ Step
    /\ ret' = Result("iter_meta", name, FALSE, iter_meta(store, name))
    /\ UNCHANGED <<store, allocated, pushed, lastClock>>

Next ==
    \/ \E name \in Names, doc \in InputDocs : InsertDoc(name, doc)
    \/ \E name \in Names, doc \in RawDocs : InsertDocRaw(name, doc)
    \/ \E name \in Names, update \in Deltas : PushUpdate(name, update)
    \/ \E name \in Names : FlushDoc(name)
    \/ \E name \in Names : ClearDoc(name)
    \/ \E name \in Names : LoadDoc(name)
    \/ \E name \in Names : GetStateVector(name)
    \/ \E name \in Names, sv \in Vectors : GetDiff(name, sv)
    \/ \E name \in Names, k \in MetaKeys : GetMeta(name, k)
    \/ \E name \in Names, k \in MetaKeys, v \in MetaVals : InsertMeta(name, k, v)
    \/ \E name \in Names, k \in MetaKeys : RemoveMeta(name, k)
    \/ IterDocs
    \/ \E name \in Names : IterMeta(name)

Spec == Init /\ [][Next]_vars

----------------------------------------------------------------------------
(* Vocabulary of the properties *)

WriteOps == {"insert_doc", "insert_doc_raw_v1", "push_update", "insert_meta"}

HasOid(s, name) == key_oid(name) \in DOMAIN s

\* the owner id stored for a name that has one
OidOf(s, name) == s[key_oid(name)]

\* k is a log key of owner id oid: 01{oid:4}2{clock:4}0
IsLogKey(k, oid) ==
    /\ Len(k) = 12
    /\ SubSeq(k, 1, 7) = <<V1, KEYSPACE_DOC>> \o oid \o <<SUB_UPDATE>>

\* k is any key scoped under owner id oid
IsScopedKey(k, oid) ==
    /\ Len(k) >= 7
    /\ SubSeq(k, 1, 6) = <<V1, KEYSPACE_DOC>> \o oid

LogKeys(s, oid) == {k \in DOMAIN s : IsLogKey(k, oid)}

\* the log region of the name is empty (or the name has no id at all)
LogEmpty(s, name) == HasOid(s, name) => LogKeys(s, OidOf(s, name)) = {}

\* the last operation allocated a new owner id
Allocated(r) == r.op \in WriteOps /\ r.val[2]

----------------------------------------------------------------------------
(* C1: no two distinct document names are ever mapped to the same owner    *)
(* id, whatever the order in which the names are first written.            *)
C1_DistinctNamesDistinctOids ==
    \A a, b \in Names :
        (a # b /\ HasOid(store, a) /\ HasOid(store, b))
            => OidOf(store, a) # OidOf(store, b)

(* C2: every owner id newly allocated by get_or_create_oid is strictly     *)
(* greater than every id allocated earlier, so no id is ever given out     *)
(* twice.                                                                   *)
C2_OidsStrictlyIncrease ==
    [][Allocated(ret') => \A o \in allocated : Less(o, ret'.val[1])]_vars

(* C3: load-document applies exactly the stored snapshot (if any) followed *)
(* by the updates pushed on that name, each once, in the order pushed, so  *)
(* the loaded state is the state of a fresh document to which they were    *)
(* applied in that order.                                                   *)
C3_LoadReplaysPushed ==
    ret.op = "load_doc" =>
        LET name == ret.name
            snap == IF HasOid(store, name)
                    THEN get(store, key_doc(OidOf(store, name)))
                    ELSE <<>>
        IN  /\ ret.val.applied = snap \o pushed[name]
            /\ ret.val.doc = ApplyAll(NewDoc, snap \o pushed[name])

(* C4: the clocks returned by successive push-update calls on a document   *)
(* with no flush or clear in between strictly increase, and each push adds *)
(* exactly one new log entry and overwrites none.                          *)
C4_ClocksIncrease ==
    [][(/\ ret'.op = "push_update"
        /\ ~ret'.panicked
        /\ ops' = ops + 1
        /\ lastClock[ret'.name] # NoClock)
       => LET k == key_update(ret'.val[1], ret'.val[3])
          IN  /\ Less(lastClock[ret'.name], ret'.val[3])
              /\ k \notin DOMAIN store
              /\ DOMAIN store' = (DOMAIN store) \cup {k}]_vars

(* C5: whenever the log region of a document is empty, push-update finds a *)
(* current maximum clock of 0 and returns clock 1, whatever other keys the *)
(* store holds.                                                             *)
C5_FirstClockIsOne ==
    [][(/\ ret'.op = "push_update"
        /\ ops' = ops + 1
        /\ LogEmpty(store, ret'.name))
       => (~ret'.panicked /\ ret'.val[3] = to_be_bytes(1))]_vars

\* the clock embedded in a log key
ClockOf(k) == SubSeq(k, 8, 11)

RECURSIVE ByClock(_, _)
\* the values of the log keys K of s, ascending by embedded clock
ByClock(s, K) ==
    IF K = {} THEN <<>>
    ELSE LET m == CHOOSE x \in K : \A y \in K : Leq(ClockOf(x), ClockOf(y))
         IN  <<s[m]>> \o ByClock(s, K \ {m})

\* the merge of the snapshot (if any) of oid with its log in clock order
Merged(s, oid) ==
    ApplyAll(NewDoc, get(s, key_doc(oid)) \o ByClock(s, LogKeys(s, oid)))

\* the last step was a flush-document call
FlushStep == ret'.op = "flush_doc" /\ ops' = ops + 1

(* C6: a flush-document on a document with at least one log entry returns  *)
(* the merge of the previous snapshot with every log entry in clock order, *)
(* stores that merge as the snapshot, leaves the log region empty, and     *)
(* load-document yields the same state before and after it.                *)
C6_FlushMerges ==
    [][(FlushStep /\ ~LogEmpty(store, ret'.name) /\ HasOid(store, ret'.name))
       => LET name == ret'.name
              oid == OidOf(store, name)
              merged == Merged(store, oid)
          IN  /\ ret'.val = <<merged>>
              /\ LogKeys(store', oid) = {}
              /\ get(store', key_doc(oid)) = <<encode_state_as_update_v1(merged)>>
              /\ DocOps_load_doc(store', name, NewDoc).doc
                     = DocOps_load_doc(store, name, NewDoc).doc
              /\ DocOps_load_doc(store', name, NewDoc).doc = merged]_vars

\* a flush has merged snapshot edit 1 with pushed edit 2
C6_Witness ==
    /\ ret.op = "flush_doc"
    /\ ret.val = << <<1, 2>> >>
    /\ LogEmpty(store, ret.name)
    /\ get(store, key_doc(OidOf(store, ret.name))) = <<encode_update_v1(<<1, 2>>)>>

(* C7: flush-document on a document whose log is empty returns nothing and *)
(* leaves every key of the store unchanged.                                *)
C7_FlushIdempotent ==
    [][(FlushStep /\ LogEmpty(store, ret'.name))
       => (ret'.val = <<>> /\ store' = store)]_vars

\* a flush found a snapshot and an empty log, and reported nothing
C7_Witness ==
    /\ ret.op = "flush_doc"
    /\ ret.val = <<>>
    /\ HasOid(store, ret.name)
    /\ key_doc(OidOf(store, ret.name)) \in DOMAIN store
    /\ LogEmpty(store, ret.name)

(* C8: after a flush-document that merged at least one log entry,          *)
(* get-clock-vector on the name returns up-to-date = true and the clock    *)
(* vector of the merged document the flush returned.                       *)
C8_VectorAfterFlush ==
    [][(FlushStep /\ ret'.val # <<>>)
       => get_state_vector(store', ret'.name)
              = << <<state_vector(ret'.val[1])>>, TRUE >>]_vars

\* a flush returned a document and the stored vector holds both edits
C8_Witness ==
    /\ ret.op = "flush_doc"
    /\ ret.val # <<>>
    /\ get_state_vector(store, ret.name) = << <<{1, 2}>>, TRUE >>

(* C9: get-clock-vector returns up-to-date = false exactly when the named  *)
(* document has at least one pending log entry, whether or not a vector is *)
(* stored; for a name with no owner id it returns (none, true).            *)
C9_UpToDateIffLogEmpty ==
    /\ \A name \in Names :
        /\ get_state_vector(store, name)[2] = LogEmpty(store, name)
        /\ ~HasOid(store, name) => get_state_vector(store, name) = << <<>>, TRUE >>
    /\ ret.op = "get_state_vector"
           => /\ ret.val[2] = LogEmpty(store, ret.name)
              /\ ~HasOid(store, ret.name) => ret.val = << <<>>, TRUE >>

\* get-clock-vector reported a pending log although no vector is stored
C9_Witness ==
    /\ ret.op = "get_state_vector"
    /\ ret.val = << <<>>, FALSE >>

\* what the read operations return for the name in store s
Reads(s, name) ==
    [sv |-> get_state_vector(s, name),
     load |-> DocOps_load_doc(s, name, NewDoc),
     meta |-> iter_meta(s, name),
     listed |-> \E i \in 1..Len(iter_docs(s)) : iter_docs(s)[i] = name]

(* C10: after clear-document(name) the id mapping of the name and every    *)
(* key scoped under its owner id are absent, and get-clock-vector,         *)
(* load-document, iter-meta and iter-docs behave as for a name never used. *)
C10_ClearRemovesAll ==
    [][(ret'.op = "clear_doc" /\ ops' = ops + 1)
       => LET name == ret'.name
          IN  /\ ~HasOid(store', name)
              /\ HasOid(store, name) =>
                    \A k \in DOMAIN store' : ~IsScopedKey(k, OidOf(store, name))
              /\ get_state_vector(store', name) = << <<>>, TRUE >>
              /\ ~DocOps_load_doc(store', name, NewDoc).found
              /\ iter_meta(store', name) = <<>>
              /\ Reads(store', name) = Reads(EmptyStore, name)]_vars

\* a name that had an owner id was cleared while another document remains
C10_Witness ==
    /\ ret.op = "clear_doc"
    /\ ret.val # <<>>
    /\ \E k \in DOMAIN store : Len(k) > 7

\* the keys of s scoped under owner id oid
ScopedKeys(s, oid) == {k \in DOMAIN s : IsScopedKey(k, oid)}

\* the id mapping and every scoped entry of name b are the same in s and t
SameDocument(s, t, b) ==
    /\ HasOid(t, b)
    /\ OidOf(t, b) = OidOf(s, b)
    /\ ScopedKeys(t, OidOf(s, b)) = ScopedKeys(s, OidOf(s, b))
    /\ \A k \in ScopedKeys(s, OidOf(s, b)) : t[k] = s[k]

(* C11: for any two distinct names a and b, clear-document(a) leaves the   *)
(* id mapping, snapshot, clock vector, log entries and metadata entries of *)
(* b unchanged.                                                             *)
C11_ClearLeavesOthers ==
    [][(ret'.op = "clear_doc" /\ ops' = ops + 1)
       => \A b \in Names \ {ret'.name} :
              HasOid(store, b) => SameDocument(store, store', b)]_vars

\* a snapshot is stored for the name
HasSnapshot(s, name) == HasOid(s, name) /\ key_doc(OidOf(s, name)) \in DOMAIN s

\* the document of the name exists: it has an owner id and a snapshot or a log
Exists(s, name) ==
    HasOid(s, name) /\ (HasSnapshot(s, name) \/ ~LogEmpty(s, name))

(* C12: load-document(name) returns found = true exactly when the name has *)
(* an owner id and a snapshot is stored or its log is non-empty; it        *)
(* returns false for an unknown name and for a name with only metadata.    *)
C12_FoundIffStored ==
    ret.op = "load_doc" =>
        /\ ret.val.found = Exists(store, ret.name)
        /\ ~HasOid(store, ret.name) => ~ret.val.found
        /\ (HasOid(store, ret.name) /\ ScopedKeys(store, OidOf(store, ret.name))
                \subseteq {key_meta(OidOf(store, ret.name), k) : k \in MetaKeys})
               => ~ret.val.found

\* load-document reported not-found for a name that has an id and metadata only
C12_Witness ==
    /\ ret.op = "load_doc"
    /\ ~ret.val.found
    /\ HasOid(store, ret.name)
    /\ iter_meta(store, ret.name) # <<>>

\* a replica whose state is exactly the state vector sv
Replica(sv) == SortedEdits(sv)

\* the edits held by a replica at sv after it applied the optional delta d
\* that get-diff returned
AfterDiff(sv, d) == state_vector(apply_update(Replica(sv), decode_update_v1(d[1])))

\* the edits of the stored document (snapshot plus log) of the name
StoredState(s, name) == state_vector(DocOps_load_doc(s, name, NewDoc).doc)

(* C13: get-diff(name, v) returns nothing exactly when load-document       *)
(* reports not-found; otherwise the delta, applied to a replica whose      *)
(* state is v, yields the state of the stored document, and for the empty  *)
(* vector the delta carries the full stored state.                         *)
C13_DiffReachesStored ==
    ret.op = "get_diff" =>
        LET sv == ret.val[1]
            d == ret.val[2]
            l == DocOps_load_doc(store, ret.name, NewDoc)
        IN  /\ (d = <<>>) = ~l.found
            /\ d # <<>> => AfterDiff(sv, d) = state_vector(l.doc)
            /\ (d # <<>> /\ sv = {}) => decode_update_v1(d[1]) = l.doc

(* C13, amended: get-diff(name, v) returns nothing exactly when            *)
(* load-document reports not-found; otherwise the delta, applied to a      *)
(* replica whose state is v, yields the stored document's edits together   *)
(* with those of v, which is the stored state whenever the stored document *)
(* holds every edit of v; for the empty vector the delta carries the full  *)
(* stored state.                                                            *)
C13_DiffMergesStored ==
    ret.op = "get_diff" =>
        LET sv == ret.val[1]
            d == ret.val[2]
            l == DocOps_load_doc(store, ret.name, NewDoc)
        IN  /\ (d = <<>>) = ~l.found
            /\ d # <<>> => AfterDiff(sv, d) = state_vector(l.doc) \cup sv
            /\ (d # <<>> /\ sv \subseteq state_vector(l.doc))
                   => AfterDiff(sv, d) = state_vector(l.doc)
            /\ (d # <<>> /\ sv = {}) => decode_update_v1(d[1]) = l.doc

\* a replica holding edit 1 asked for its diff to a document holding 1 and 2
\* and received edit 2 alone
C13_Witness ==
    /\ ret.op = "get_diff"
    /\ ret.val[1] = {1}
    /\ ret.val[2] = <<encode_update_v1(<<2>>)>>
    /\ StoredState(store, ret.name) = {1, 2}

\* k is a metadata key of owner id oid: 01{oid:4}3{meta_key:n}0
IsMetaKey(k, oid) ==
    /\ Len(k) >= 8
    /\ SubSeq(k, 1, 7) = <<V1, KEYSPACE_DOC>> \o oid \o <<SUB_META>>

\* the log and metadata entries of owner id oid are the same in s and t
SameLogAndMeta(s, t, oid) ==
    LET K(x) == {k \in DOMAIN x : IsLogKey(k, oid) \/ IsMetaKey(k, oid)}
    IN  K(t) = K(s) /\ \A k \in K(s) : t[k] = s[k]

(* C14: insert-document and insert-document-raw replace the snapshot and   *)
(* clock vector of the named document (allocating an owner id if the name  *)
(* is new) and leave that document's log entries and metadata, and every   *)
(* key of every other document, unchanged.                                 *)
C14_InsertFrame ==
    [][(ret'.op \in {"insert_doc", "insert_doc_raw_v1"} /\ ops' = ops + 1)
       => LET name == ret'.name
              oid == ret'.val[1]
          IN  /\ HasOid(store', name) /\ OidOf(store', name) = oid
              /\ HasSnapshot(store', name)
              /\ key_state_vector(oid) \in DOMAIN store'
              /\ HasOid(store, name) => SameLogAndMeta(store, store', oid)
              /\ \A b \in Names \ {name} :
                     HasOid(store, b) => SameDocument(store, store', b)]_vars

RECURSIVE MetaPairs(_, _, _)
\* the (key, value) pairs get-meta finds for the name among the keys K,
\* ascending by metadata key
MetaPairs(s, name, K) ==
    IF K = {} THEN <<>>
    ELSE LET m == CHOOSE x \in K : \A y \in K : Leq(x, y)
             rest == MetaPairs(s, name, K \ {m})
         IN  IF get_meta(s, name, m) # <<>>
             THEN << <<m, get_meta(s, name, m)[1]>> >> \o rest
             ELSE rest

\* the operations that change the metadata of the name they are called on
MetaOps == {"insert_meta", "remove_meta", "clear_doc"}

(* C15: metadata is scoped per document: after insert-meta(name, k, v),    *)
(* get-meta(name, k) returns v until a later insert-meta, remove-meta or   *)
(* clear-document on the same name; iter-meta(name) yields exactly the     *)
(* pairs stored for that name, ascending by key, never an entry inserted   *)
(* under another name, and nothing for a name with no owner id.            *)
C15_MetaScoped ==
    [][ops' = ops + 1 =>
        /\ ret'.op = "insert_meta"
               => get_meta(store', ret'.name, ret'.val[3]) = <<ret'.val[4]>>
        /\ \A b \in Names, k \in MetaKeys :
               ~(ret'.op \in MetaOps /\ ret'.name = b)
                   => get_meta(store', b, k) = get_meta(store, b, k)
        /\ ret'.op = "iter_meta"
               => /\ ret'.val = MetaPairs(store', ret'.name, MetaKeys)
                  /\ ~HasOid(store', ret'.name) => ret'.val = <<>>]_vars

\* the name has an owner id but neither a snapshot nor a log entry
NoDocument(s, name) == HasOid(s, name) /\ ~HasSnapshot(s, name) /\ LogEmpty(s, name)

\* the name has a snapshot and an empty log
SnapshotOnly(s, name) == HasSnapshot(s, name) /\ LogEmpty(s, name)

(* C18: flush-document on a name that has an owner id but neither a        *)
(* snapshot nor a log entry reports a "no document" outcome distinct from  *)
(* the "nothing changed" outcome it reports when only a snapshot exists    *)
(* and the log is empty.                                                    *)
C18_NoDocumentDistinct ==
    \A n, m \in Names :
        (NoDocument(store, n) /\ SnapshotOnly(store, m))
            => flush_doc_with(store, n).doc # flush_doc_with(store, m).doc

(* C18, amended: flush-document on a name that has an owner id but neither *)
(* a snapshot nor a log entry returns nothing and changes no key, the same *)
(* outcome it reports when only a snapshot exists and the log is empty.    *)
C18_NoDocumentIsNone ==
    [][(FlushStep /\ NoDocument(store, ret'.name))
       => /\ ret'.val = <<>>
          /\ store' = store
          /\ \A m \in Names :
                 SnapshotOnly(store, m) => flush_doc_with(store, m).doc = ret'.val]_vars

\* a flush returned nothing for a name holding metadata only while another
\* name holds a snapshot and an empty log
C18_Witness ==
    /\ ret.op = "flush_doc"
    /\ ret.val = <<>>
    /\ NoDocument(store, ret.name)
    /\ \E m \in Names : SnapshotOnly(store, m)

ReadOps == {"load_doc", "get_state_vector", "get_diff", "get_meta",
            "iter_meta", "iter_docs"}

GuardedOps == {"flush_doc", "remove_meta", "clear_doc"}

\* the names that have an owner id
Mapped(s) == {n \in Names : HasOid(s, n)}

(* C20: only insert-document, insert-document-raw, push-update and         *)
(* insert-meta ever create an id mapping: the read operations on any name, *)
(* and flush-document, remove-meta and clear-document on a name with no    *)
(* owner id, leave every key of the store unchanged and allocate no id.    *)
C20_OnlyWritesAllocate ==
    [][ops' = ops + 1 =>
        /\ ret'.op \in ReadOps => (store' = store /\ allocated' = allocated)
        /\ (ret'.op \in GuardedOps /\ ~HasOid(store, ret'.name))
               => (store' = store /\ allocated' = allocated)
        /\ ~(Mapped(store') \subseteq Mapped(store)) => ret'.op \in WriteOps
        /\ ret'.op \notin WriteOps
               => {k \in DOMAIN store' : Len(k) >= 2 /\ k[2] = KEYSPACE_OID}
                      \subseteq DOMAIN store]_vars

\* remove-meta was called on a name that has no owner id and the store holds
\* other documents
C20_Witness ==
    /\ ret.op = "remove_meta"
    /\ ~HasOid(store, ret.name)
    /\ Mapped(store) # {}

----------------------------------------------------------------------------
(* clear-document executed one primitive call at a time, with a crash or   *)
(* backend failure possible between any two calls                          *)

\* clear_doc that leaves the id-allocation key in place when it starts
clear_begin_keep_mapping(s, name) ==
    [s |-> s, oid |-> get(s, key_oid(name))]

\* the lookup of the name and the removal of its id-allocation key
clear_begin(s, name) ==
    LET oid_key == key_oid(name)
        found == get(s, oid_key)
    IN  IF found # <<>> THEN [s |-> remove(s, oid_key), oid |-> found]
        ELSE [s |-> s, oid |-> <<>>]

\* the cursor over the scoped region of the owner id
clear_cursor(s, oid) == iter_range(s, key_doc_start(oid), key_doc_end(oid))

Clearing(stage) == task.kind = "clear" /\ task.stage = stage

ClearBegin(name) ==
    /\ task = Idle
    /\ LET b == clear_begin(store, name)
       IN  /\ store' = b.s
           /\ task' = [Idle EXCEPT !.kind = "clear", !.name = name, !.oid = b.oid,
                                   !.start = store,
                                   !.stage = IF b.oid = <<>> THEN "done" ELSE "unmapped"]
    /\ UNCHANGED <<ret, allocated, pushed, lastClock, ops>>

ClearScan ==
    /\ Clearing("unmapped")
    /\ task' = [task EXCEPT !.stage = "scanning",
                            !.cursor = clear_cursor(store, task.oid[1])]
    /\ UNCHANGED <<store, ret, allocated, pushed, lastClock, ops>>

ClearRemove ==
    /\ Clearing("scanning")
    /\ task.cursor # <<>>
    /\ IF Less(key_doc_end(task.oid[1]), Head(task.cursor))
       THEN /\ task' = [task EXCEPT !.stage = "done"]
            /\ store' = store
       ELSE /\ task' = [task EXCEPT !.cursor = Tail(@)]
            /\ store' = remove(store, Head(task.cursor))
    /\ UNCHANGED <<ret, allocated, pushed, lastClock, ops>>

ClearEnd ==
    /\ Clearing("scanning")
    /\ task.cursor = <<>>
    /\ task' = [task EXCEPT !.stage = "done"]
    /\ UNCHANGED <<store, ret, allocated, pushed, lastClock, ops>>

\* the next call fails, or the process stops: the clear is abandoned
ClearFail ==
    /\ Clearing("unmapped") \/ Clearing("scanning")
    /\ task' = [task EXCEPT !.stage = "failed"]
    /\ UNCHANGED <<store, ret, allocated, pushed, lastClock, ops>>

\* the writes that build the store before the operation under study starts
Populate ==
    \/ \E name \in Names, doc \in InputDocs : InsertDoc(name, doc)
    \/ \E name \in Names, update \in Deltas : PushUpdate(name, update)
    \/ \E name \in Names, k \in MetaKeys, v \in MetaVals : InsertMeta(name, k, v)

NextClear ==
    \/ Populate
    \/ \E name \in Names : ClearBegin(name)
    \/ ClearScan
    \/ ClearRemove
    \/ ClearEnd
    \/ ClearFail

SpecClear == Init /\ [][NextClear]_vars

----------------------------------------------------------------------------
(* Two get_or_create_oid calls on one unknown name, not synchronized: the  *)
(* get, peek_back and upsert of the two calls interleave freely            *)

\* the id peek_back finds below the first document key, 0 if none
last_oid(s) ==
    LET e == peek_back(s, <<V1, KEYSPACE_DOC>>)
    IN  IF e # <<>> THEN s[e[1]] ELSE U32Zero

Procs == {1, 2}

Other(p) == 3 - p

NewCall == [pc |-> "start", last |-> U32Zero, oid |-> U32Zero,
            created |-> FALSE, after |-> FALSE]

Racing == task.kind = "race"

RaceBegin(name) ==
    /\ task = Idle
    /\ ~HasOid(store, name)
    /\ task' = [Idle EXCEPT !.kind = "race", !.name = name, !.start = store,
                            !.calls = <<NewCall, NewCall>>]
    /\ UNCHANGED <<store, ret, allocated, pushed, lastClock, ops>>

\* get_oid(db, name)
GocGet(p) ==
    /\ Racing
    /\ task.calls[p].pc = "start"
    /\ LET found == get_oid(store, task.name)
           after == task.calls[Other(p)].pc = "done"
       IN  task' = [task EXCEPT !.calls[p] =
                IF found # <<>>
                THEN [@ EXCEPT !.pc = "done", !.oid = found[1], !.after = after]
                ELSE [@ EXCEPT !.pc = "absent", !.after = after]]
    /\ UNCHANGED <<store, ret, allocated, pushed, lastClock, ops>>

\* db.peek_back([V1, KEYSPACE_DOC])
GocPeek(p) ==
    /\ Racing
    /\ task.calls[p].pc = "absent"
    /\ task' = [task EXCEPT !.calls[p].pc = "peeked",
                            !.calls[p].last = last_oid(store)]
    /\ UNCHANGED <<store, ret, allocated, pushed, lastClock, ops>>

\* db.upsert(&key, new_oid)
GocUpsert(p) ==
    /\ Racing
    /\ task.calls[p].pc = "peeked"
    /\ LET new_oid == WrapInc(task.calls[p].last)
       IN  /\ store' = upsert(store, key_oid(task.name), new_oid)
           /\ task' = [task EXCEPT !.calls[p].pc = "done",
                                   !.calls[p].oid = new_oid,
                                   !.calls[p].created = TRUE]
    /\ UNCHANGED <<ret, allocated, pushed, lastClock, ops>>

NextRace ==
    \/ Populate
    \/ \E name \in Names : RaceBegin(name)
    \/ \E p \in Procs : GocGet(p)
    \/ \E p \in Procs : GocPeek(p)
    \/ \E p \in Procs : GocUpsert(p)

SpecRace == Init /\ [][NextRace]_vars

BothDone == Racing /\ \A p \in Procs : task.calls[p].pc = "done"

(* C17: two unsynchronized get-or-create calls on the same unknown name    *)
(* can return two different owner ids.  What holds of every interleaving:  *)
(* a call that starts after the other has returned gets the other's id,    *)
(* which is the id the serial get_or_create_oid allocates; the ids differ  *)
(* only when both calls found the name absent, and the mapping left in the *)
(* store is one of the two ids.  The witness is the interleaving in which  *)
(* they differ.                                                             *)
C17_RaceOutcome ==
    BothDone =>
        /\ \A p \in Procs :
               task.calls[p].after =>
                   /\ task.calls[p].oid = task.calls[Other(p)].oid
                   /\ task.calls[p].oid
                          = get_or_create_oid(task.start, task.name).oid
        /\ task.calls[1].oid # task.calls[2].oid
               => \A p \in Procs : task.calls[p].created /\ ~task.calls[p].after
        /\ OidOf(store, task.name) \in {task.calls[1].oid, task.calls[2].oid}

\* both calls have returned, with two different owner ids for the one name
C17_Witness ==
    /\ BothDone
    /\ task.calls[1].oid # task.calls[2].oid

----------------------------------------------------------------------------
(* flush-document executed one primitive call at a time; any call may fail *)
(* and abort the flush, and nothing already written is rolled back         *)

\* flush_doc that prunes the log before it writes the snapshot
flush_writes_prune_first(s, oid, doc) ==
    LET s1 == delete_updates(s, oid)
        s2 == upsert(s1, key_doc(oid), encode_state_as_update_v1(doc))
        s3 == upsert(s2, key_state_vector(oid), encode_sv_v1(state_vector(doc)))
    IN  <<s1, s2, s3>>

\* the store after each of the three writes of a flush that merged doc:
\* the snapshot upsert, the clock-vector upsert, the remove_range of the log
flush_writes(s, oid, doc) ==
    LET s1 == upsert(s, key_doc(oid), encode_state_as_update_v1(doc))
        s2 == upsert(s1, key_state_vector(oid), encode_sv_v1(state_vector(doc)))
        s3 == delete_updates(s2, oid)
    IN  <<s1, s2, s3>>

Flushing(stage) == task.kind = "flush" /\ task.stage = stage

FlushBegin(name) ==
    /\ task = Idle
    /\ HasOid(store, name)
    /\ task' = [Idle EXCEPT !.kind = "flush", !.name = name,
                            !.oid = get_oid(store, name), !.start = store,
                            !.stage = "begun"]
    /\ UNCHANGED <<store, ret, allocated, pushed, lastClock, ops>>

\* load_doc: the snapshot get and the scan of the log
FlushScan ==
    /\ Flushing("begun")
    /\ LET loaded == load_doc(store, task.oid[1], NewDoc)
       IN  task' = [task EXCEPT !.before = loaded.doc,
                                !.stage = IF FromUpdates(loaded) THEN "loaded"
                                          ELSE "done"]
    /\ UNCHANGED <<store, ret, allocated, pushed, lastClock, ops>>

FlushWrite(from, i, to) ==
    /\ Flushing(from)
    /\ store' = flush_writes(task.start, task.oid[1], task.before)[i]
    /\ task' = [task EXCEPT !.stage = to]
    /\ UNCHANGED <<ret, allocated, pushed, lastClock, ops>>

FlushWriteDoc == FlushWrite("loaded", 1, "doc_written")

FlushWriteSv == FlushWrite("doc_written", 2, "sv_written")

FlushPrune == FlushWrite("sv_written", 3, "done")

\* the next primitive call fails and the flush returns the error
FlushFail ==
    /\ \E stage \in {"begun", "loaded", "doc_written", "sv_written"} : Flushing(stage)
    /\ task' = [task EXCEPT !.stage = "failed"]
    /\ UNCHANGED <<store, ret, allocated, pushed, lastClock, ops>>

NextFlush ==
    \/ Populate
    \/ \E name \in Names : FlushBegin(name)
    \/ FlushScan
    \/ FlushWriteDoc
    \/ FlushWriteSv
    \/ FlushPrune
    \/ FlushFail

SpecFlush == Init /\ [][NextFlush]_vars

(* C19: if flush-document is aborted by a backend failure at any one of    *)
(* its primitive calls, with no rollback, a subsequent load-document on    *)
(* the name yields the same document state as before the flush started:   *)
(* the log is pruned only after the new snapshot has been written.         *)
C19_AbortedFlushKeepsState ==
    task.kind = "flush" =>
        /\ task.stage = "loaded" =>
               /\ store = task.start
               /\ task.before = DocOps_load_doc(task.start, task.name, NewDoc).doc
        /\ store # task.start =>
               LET l == DocOps_load_doc(store, task.name, NewDoc)
               IN  l.found /\ l.doc = task.before
        /\ task.stage = "done" => store = flush_doc(task.start, task.oid[1]).s

\* a flush was aborted after it wrote the merged snapshot of edits 1 and 2
\* and before it pruned the log
C19_Witness ==
    /\ Flushing("failed")
    /\ store # task.start
    /\ ~LogEmpty(store, task.name)
    /\ DocOps_load_doc(store, task.name, NewDoc).doc = <<1, 2>>

====
